---- MODULE Spec2Model ----
(***************************************************************************)
(* Model of the alphavantage package: the retry handler                    *)
(* (utils/error_handling.py), the request builder, response parser and     *)
(* multi-symbol aggregation of AlphaVantageAPI (api/alpha_vantage.py) and  *)
(* the entry of the legacy adapter (av.py).                                *)
(*                                                                         *)
(* One caller runs one call.  The network is the environment: every        *)
(* session.request is one step whose outcome (a status, a transport error, *)
(* a body) is chosen nondeterministically.  Time is counted in             *)
(* milliseconds; floats that hold prices are records (nan, v).             *)
(***************************************************************************)
EXTENDS Integers, Sequences, FiniteSets, TLC

VARIABLES
    pc,         \* "idle" | "request" (line 42 is next) | "sleep" (inside
                \* time.sleep, line 49) | "done"
    entry,      \* which function the caller invoked
    symbols,    \* get_assets: the symbol list after the str wrap (line 180)
    period,     \* call arguments
    interval,
    adjusted,
    i,          \* get_assets loop: 1-based position of the symbol being fetched
    fetched,    \* symbols for which get_historical_data has been entered
    params,     \* the dict handed to session.request (with apikey)
    attempt,    \* request_with_retry: the loop variable
    reqs,       \* requests issued by the current request_with_retry call
    contacted,  \* session.request has been called since the call began
    slept,      \* ms slept by the current request_with_retry call
    sleeps,     \* the waits of the current request_with_retry call, in order
    last,       \* outcome of the latest request
    dfs,        \* get_assets: the series collected so far
    payload,    \* get_historical_data: its local data, the response's payload
    result      \* what the call returned or raised

vars == <<pc, entry, symbols, period, interval, adjusted, i, fetched, params,
          attempt, reqs, contacted, slept, sleeps, last, dfs, payload, result>>

----------------------------------------------------------------------------
(* Bounds of the model *)

\* longest symbol list passed to get_assets
MaxSymbols == 2
\* timestamps of a payload are drawn from days 1..MaxTs
MaxTs == 2

----------------------------------------------------------------------------
(* Program constants *)

\* RequestRetryHandler() defaults (AlphaVantageAPI.__init__ passes none)
max_retries == 5
\* backoff_factor = 0.5 s, in milliseconds
backoff_factor == 500
status_forcelist == {429, 500, 502, 503, 504}

COIN_NAMES == {"BTC", "ETH", "DOGE", "AVAX", "SHIB", "LINK", "BCH", "LTC", "ETC", "AAVE"}
\* av.py's module-level get_coin_names()
get_coin_names == {"BTC", "ETH", "ETC", "LTC", "DOGE"}

\* Python's None where a string is expected
None == "None"

Period == {"intraday", "daily", "weekly", "monthly"}
INTRADAY == "intraday"
Interval == {"1min", "5min", "15min", "30min", "60min"}

----------------------------------------------------------------------------
(* Inputs the caller and the network may supply *)

SymbolNames == {"BTC", "IBM"}
SymbolLists == UNION {[1..n -> SymbolNames] : n \in 0..MaxSymbols}
IntervalArgs == {None, "5min"}

\* an outcome of session.request: a response with a status code, or an exception
Status(c) == [kind |-> "status", code |-> c]
Exc(k) == [kind |-> k, code |-> 0]
NoResponse == [kind |-> "None", code |-> 0]
StatusCodes == {200, 404, 501} \cup status_forcelist
TransportErrors == {"ConnectionError", "Timeout"}
\* a requests exception that request_with_retry does not catch
OtherErrors == {"TooManyRedirects"}

----------------------------------------------------------------------------
(* Results: a returned value or a raised exception *)

Raise(type, message, response) ==
    [status |-> "raised", type |-> type, message |-> message,
     response |-> response, value |-> <<>>]
Return(type, value) ==
    [status |-> "returned", type |-> type, message |-> "",
     response |-> NoResponse, value |-> value]
NoResult == [status |-> "none", type |-> "", message |-> "",
             response |-> NoResponse, value |-> <<>>]

----------------------------------------------------------------------------
(* RequestBuilder: AlphaVantageAPI._get_function_name and the parameter    *)
(* set of get_historical_data                                              *)

\* period.value.upper()
Upper(p) ==
    CASE p = "intraday" -> "INTRADAY"
      [] p = "daily" -> "DAILY"
      [] p = "weekly" -> "WEEKLY"
      [] p = "monthly" -> "MONTHLY"

\* the _ADJUSTED suffix is appended for intraday too
_get_function_name_adjusted_intraday(is_crypto, p, adj) ==
    IF is_crypto
    THEN (IF p = "intraday" THEN "CRYPTO" ELSE "DIGITAL_CURRENCY") \o "_" \o Upper(p)
    ELSE IF adj
         THEN "TIME_SERIES" \o "_" \o Upper(p) \o "_ADJUSTED"
         ELSE "TIME_SERIES" \o "_" \o Upper(p)

_get_function_name(is_crypto, p, adj) ==
    IF is_crypto
    THEN (IF p = INTRADAY THEN "CRYPTO" ELSE "DIGITAL_CURRENCY") \o "_" \o Upper(p)
    ELSE IF p # INTRADAY /\ adj
         THEN "TIME_SERIES" \o "_" \o Upper(p) \o "_ADJUSTED"
         ELSE "TIME_SERIES" \o "_" \o Upper(p)

\* d with d[k] = v (a dict assignment)
SetItem(d, k, v) == [x \in DOMAIN d \cup {k} |-> IF x = k THEN v ELSE d[x]]

\* symbol in self.COIN_NAMES
IsCrypto(symbol) == symbol \in COIN_NAMES

\* lines 83-88: the dict literal
BaseParams(symbol, p, adj) ==
    [function |-> _get_function_name(IsCrypto(symbol), p, adj),
     symbol |-> symbol,
     market |-> IF IsCrypto(symbol) THEN "USD" ELSE None,
     outputsize |-> "full"]

\* the interval check is skipped
MissingInterval_unchecked(p, intv) == FALSE

\* lines 90-92: the interval check
MissingInterval(p, intv) == p = INTRADAY /\ intv = None

\* line 92
MissingIntervalError ==
    Raise("ValueError", "Interval must be specified for intraday data", NoResponse)

\* lines 93-96: the optional keys
WithInterval(d, p, intv) ==
    IF p = INTRADAY THEN SetItem(d, "interval", intv) ELSE d

\* the adjusted flag is set for crypto symbols too (as the legacy _get_stock does)
WithAdjusted_any_symbol(d, symbol, p, adj) ==
    IF p # INTRADAY
    THEN SetItem(d, "adjusted", IF adj THEN "true" ELSE "false")
    ELSE d

WithAdjusted(d, symbol, p, adj) ==
    IF ~IsCrypto(symbol) /\ p # INTRADAY
    THEN SetItem(d, "adjusted", IF adj THEN "true" ELSE "false")
    ELSE d

\* lines 80-96 and line 58: the dict request_with_retry receives
BuildParams(symbol, p, intv, adj) ==
    SetItem(WithAdjusted(WithInterval(BaseParams(symbol, p, adj), p, intv), symbol, p, adj),
            "apikey", "KEY")

NoParams == [function |-> None]

----------------------------------------------------------------------------
(* RequestRetryHandler.request_with_retry                                  *)

RECURSIVE Pow2(_)
Pow2(n) == IF n = 0 THEN 1 ELSE 2 * Pow2(n - 1)

\* the delay grows linearly instead of doubling
wait_time_linear(att) == backoff_factor * (att + 1)

\* no wait after the attempt that is not followed by another
wait_time_none_after_last(att) ==
    IF att + 1 < max_retries THEN backoff_factor * Pow2(att) ELSE 0

\* line 47
wait_time(att) == backoff_factor * Pow2(att)

\* every error status is retried, not only those of status_forcelist
Retried_any_error(o) ==
    \/ o.kind = "status" /\ o.code >= 400
    \/ o.kind \in TransportErrors

\* line 43 and the except clause of line 46: the outcomes that are retried
Retried(o) ==
    \/ o.kind = "status" /\ o.code \in status_forcelist
    \/ o.kind \in TransportErrors

\* one iteration too many
HasNextAttempt_off_by_one(att) == att < max_retries

\* line 40: after iteration att, range(self.max_retries) yields another one
HasNextAttempt(att) == att + 1 < max_retries

\* line 50
AllRetriesFailed ==
    Raise("HTTPError", "All " \o ToString(max_retries) \o " retry attempts failed.", NoResponse)

\* response.raise_for_status() (line 60)
IsErrorStatus(code) == 400 <= code /\ code < 600

----------------------------------------------------------------------------
(* Payloads: what response.json() may return                               *)

\* a float: nan, or the number v
Float(x) == [nan |-> FALSE, v |-> x]
NaN == [nan |-> TRUE, v |-> 0]

\* the provider's field names
OPEN == "1. open"
CLOSE == "4. close"
ADJUSTED_CLOSE == "5. adjusted close"

\* the prices the provider quotes on day t, as the numbers behind its strings
OpenOf(t) == 30 + t
CloseOf(t) == 10 + t
AdjustedOf(t) == 20 + t
Numbers == UNION {{OpenOf(t), CloseOf(t), AdjustedOf(t)} : t \in 1..9}

\* the timestamp string of day t, "2024-01-0t"
DateStr(t) == "2024-01-0" \o ToString(t)
DateStrings == {DateStr(t) : t \in 1..9}

\* pd.to_datetime on one index label: the day it denotes
to_datetime(s) == CHOOSE t \in 1..9 : DateStr(t) = s

\* float(s) for the strings astype(float) accepts
NumStrings == {ToString(n) : n \in Numbers}
IsFloatStr(s) == s \in NumStrings \cup {"nan"}
FloatOf ==
    [s \in NumStrings \cup {"nan"} |->
        IF s = "nan" THEN NaN ELSE Float(CHOOSE n \in Numbers : ToString(n) = s)]

\* one row of the time-series block: a timestamp string and its fields
RowKinds == {"full", "close_only", "open_only", "nan", "unparseable"}
\* the kinds of the blocks whose rows are all alike
UniformKinds == {"full", "close_only", "open_only", "unparseable"}
\* the kinds of the blocks whose rows differ
MixedKinds == {"full", "close_only", "nan"}
Row(t, kind) ==
    [ts |-> DateStr(t),
     fields |->
        CASE kind = "full" ->
                 (OPEN :> ToString(OpenOf(t)) @@ CLOSE :> ToString(CloseOf(t))
                  @@ ADJUSTED_CLOSE :> ToString(AdjustedOf(t)))
          [] kind = "close_only" ->
                 (OPEN :> ToString(OpenOf(t)) @@ CLOSE :> ToString(CloseOf(t)))
          [] kind = "open_only" -> (OPEN :> ToString(OpenOf(t)))
          [] kind = "nan" ->
                 (OPEN :> ToString(OpenOf(t)) @@ CLOSE :> "nan" @@ ADJUSTED_CLOSE :> "nan")
          [] kind = "unparseable" -> (OPEN :> ToString(OpenOf(t)) @@ CLOSE :> "n/a")]

\* the elements of a set of days, latest first (the provider's order)
RECURSIVE Descending(_)
Descending(S) ==
    IF S = {} THEN <<>>
    ELSE LET m == CHOOSE x \in S : \A y \in S : y <= x
         IN <<m>> \o Descending(S \ {m})

RowsOf(S, kinds) == [j \in 1..Cardinality(S) |-> Row(Descending(S)[j], kinds[Descending(S)[j]])]

\* top-level keys, as their words
META_DATA == <<"Meta", "Data">>
TIME_SERIES_DAILY == <<"Time", "Series", "(Daily)">>
ERROR_MESSAGE == <<"Error", "Message">>
WEEKLY_ADJUSTED == <<"Weekly", "Adjusted", "Time", "Series">>
DIGITAL_CURRENCY_DAILY == <<"Time", "Series", "(Digital", "Currency", "Daily)">>
\* a key that names a series without the words "Time Series"
DAILY_PRICES == <<"Daily", "Prices", "Series">>

\* a payload: the top-level items of the JSON object, in order
Item(key, value) == [key |-> key, value |-> value]
SeriesPayload(key, rows) == <<Item(META_DATA, <<>>), Item(key, rows)>>
ErrorPayload == <<Item(ERROR_MESSAGE, <<>>)>>

\* the rows of the days order[1], order[2], ... in that order
RowsIn(order, kinds) == [j \in 1..Len(order) |-> Row(order[j], kinds[order[j]])]

\* every order in which the days of S can come
Orders(S) ==
    {order \in [1..Cardinality(S) -> S] :
        \A a, b \in 1..Cardinality(S) : a # b => order[a] # order[b]}

\* payloads without a block the parser finds: the empty object, an error
\* object, a block under a key without the words "Time Series"
KeylessPayloads ==
    {<<>>, ErrorPayload,
     SeriesPayload(DAILY_PRICES, RowsOf(1..MaxTs, [t \in 1..MaxTs |-> "full"]))}

\* the payloads of the unreliable network: one without a block, or a block of
\* the latest n days whose rows all have the same fields
Payloads ==
    KeylessPayloads \cup
    {SeriesPayload(WEEKLY_ADJUSTED, RowsOf(1..MaxTs, [t \in 1..MaxTs |-> "full"]))} \cup
    {SeriesPayload(TIME_SERIES_DAILY, RowsOf(1..n, [t \in 1..n |-> kind]))
        : n \in 0..MaxTs, kind \in UniformKinds}

\* payloads with a block of any set of days in any order, every row with
\* fields of its own
AnyOrderPayloads ==
    UNION {{SeriesPayload(key, RowsIn(order, kinds))
               : key \in {TIME_SERIES_DAILY, DIGITAL_CURRENCY_DAILY},
                 order \in Orders(S), kinds \in [S -> MixedKinds]}
           : S \in SUBSET (1..MaxTs)}

\* the payloads of the reliable network: any set of days, every row with
\* fields of its own
MixedPayloads ==
    UNION {{SeriesPayload(TIME_SERIES_DAILY, RowsOf(S, kinds)) : kinds \in [S -> MixedKinds]}
           : S \in SUBSET (1..MaxTs)}

\* the local variable data of get_historical_data (line 98)
Bound(d) == [bound |-> TRUE, value |-> d]
Unbound == [bound |-> FALSE, value |-> <<>>]

\* a response body: JSON with a payload, or something response.json() rejects
Json(d) == [json |-> TRUE, data |-> d]
NotJson == [json |-> FALSE, data |-> <<>>]
Bodies == {NotJson} \cup {Json(d) : d \in Payloads}
MixedBodies == {Json(d) : d \in MixedPayloads}
AnyOrderBodies == {Json(d) : d \in AnyOrderPayloads}

----------------------------------------------------------------------------
(* ResponseNormalizer: AlphaVantageAPI._parse_time_series_data             *)

\* Python's `sub in key`, on the words of the key
Contains(key, sub) ==
    \E k \in 0..(Len(key) - Len(sub)) : SubSeq(key, k + 1, k + Len(sub)) = sub

\* any key with the word "Series" names the block
IsTimeSeriesKey_any_series(key) == Contains(key, <<"Series">>)

\* line 139: the condition of the list comprehension
IsTimeSeriesKey(key) ==
    \/ Contains(key, <<"Time", "Series">>)
    \/ Contains(key, <<"Time", "Series", "(Digital", "Currency", "Daily)">>)

\* the adjusted-close column also for intraday equity queries
PriceColumn_adjusted_intraday(p, is_crypto, adj) ==
    IF is_crypto THEN CLOSE
    ELSE IF adj THEN ADJUSTED_CLOSE ELSE CLOSE

\* lines 144-147
PriceColumn(p, is_crypto, adj) ==
    IF is_crypto THEN CLOSE
    ELSE IF adj /\ p # INTRADAY THEN ADJUSTED_CLOSE ELSE CLOSE

\* DataFrame.from_dict(rows, orient='index').columns
Columns(rows) == UNION {DOMAIN rows[j].fields : j \in 1..Len(rows)}

\* series.sort_index(): ascending by timestamp, equal timestamps in input order
RECURSIVE SortIndex(_)
SortIndex(s) ==
    IF s = <<>> THEN <<>>
    ELSE LET j == CHOOSE a \in 1..Len(s) :
                     /\ \A b \in 1..Len(s) : s[a].ts <= s[b].ts
                     /\ \A b \in 1..(a - 1) : s[b].ts # s[a].ts
             rest == [k \in 1..(Len(s) - 1) |-> IF k < j THEN s[k] ELSE s[k + 1]]
         IN <<s[j]>> \o SortIndex(rest)

\* df[price_column] after astype(float): a missing cell is NaN
Cell(row, col) == IF col \in DOMAIN row.fields THEN FloatOf[row.fields[col]] ELSE NaN

_parse_time_series_data(data, p, is_crypto, adj) ==
    LET keys == SelectSeq([j \in 1..Len(data) |-> data[j].key], IsTimeSeriesKey)
    IN IF keys = <<>> THEN Raise("IndexError", "list index out of range", NoResponse)
       ELSE
       LET time_series_key == keys[1]
           rows == data[CHOOSE j \in 1..Len(data) : data[j].key = time_series_key].value
           price_column == PriceColumn(p, is_crypto, adj)
       IN IF \E j \in 1..Len(rows) : rows[j].ts \notin DateStrings
          THEN Raise("DateParseError", "Unknown datetime string format", NoResponse)
          ELSE IF \E j \in 1..Len(rows) : \E f \in DOMAIN rows[j].fields :
                      ~IsFloatStr(rows[j].fields[f])
          THEN Raise("ValueError", "could not convert string to float", NoResponse)
          ELSE IF price_column \notin Columns(rows)
          THEN Raise("KeyError", price_column, NoResponse)
          ELSE Return("Series",
                      SortIndex([j \in 1..Len(rows) |->
                                    [ts |-> to_datetime(rows[j].ts),
                                     val |-> Cell(rows[j], price_column)]]))

----------------------------------------------------------------------------
(* AssetAggregator: the tail of AlphaVantageAPI.get_assets                 *)

IndexOf(series) == {series[j].ts : j \in 1..Len(series)}

\* the elements of a set of timestamps, ascending
RECURSIVE Ascending(_)
Ascending(S) ==
    IF S = {} THEN <<>>
    ELSE LET m == CHOOSE x \in S : \A y \in S : x <= y
         IN <<m>> \o Ascending(S \ {m})

\* the value of a series at a timestamp, NaN where the series has none
ValueAt(series, t) ==
    IF t \in IndexOf(series)
    THEN series[CHOOSE j \in 1..Len(series) : series[j].ts = t].val
    ELSE NaN

\* pd.concat(dfs, axis=1) followed by result.columns = symbols: the outer join
Concat(series_list, columns) ==
    LET index == Ascending(UNION {IndexOf(series_list[c]) : c \in 1..Len(series_list)})
    IN [columns |-> columns,
        index |-> index,
        data |-> [r \in 1..Len(index) |->
                     [c \in 1..Len(series_list) |-> ValueAt(series_list[c], index[r])]]]

\* result.dropna(): the rows with no NaN
dropna(df) ==
    LET keep == SelectSeq([r \in 1..Len(df.index) |-> r],
                          LAMBDA r : \A c \in 1..Len(df.data[r]) : ~df.data[r][c].nan)
    IN [columns |-> df.columns,
        index |-> [k \in 1..Len(keep) |-> df.index[keep[k]]],
        data |-> [k \in 1..Len(keep) |-> df.data[keep[k]]]]

\* the outer join is returned as it is
BuildTable_no_dropna(series_list, columns) == Concat(series_list, columns)

\* lines 189-192
BuildTable(series_list, columns) == dropna(Concat(series_list, columns))

----------------------------------------------------------------------------
(* The state machine                                                       *)

Init ==
    /\ pc = "idle"
    /\ entry = None
    /\ symbols = <<>>
    /\ period = None
    /\ interval = None
    /\ adjusted = FALSE
    /\ i = 0
    /\ fetched = <<>>
    /\ params = NoParams
    /\ attempt = 0
    /\ reqs = 0
    /\ contacted = FALSE
    /\ slept = 0
    /\ sleeps = <<>>
    /\ last = NoResponse
    /\ dfs = <<>>
    /\ payload = Unbound
    /\ result = NoResult

\* a failure after some series were collected returns the table of those
Finish_partial(r) ==
    /\ pc' = "done"
    /\ result' = IF r.status = "raised" /\ dfs # <<>>
                 THEN Return("DataFrame", BuildTable(dfs, SubSeq(symbols, 1, Len(dfs))))
                 ELSE r

\* The call ends: it returned or raised r.
Finish(r) ==
    /\ pc' = "done"
    /\ result' = r

\* get_historical_data(symbol, ...) is entered (lines 80-98): the interval
\* check, then the first iteration of request_with_retry's loop is about to
\* issue its request.
EnterHistoricalData(symbol, p, intv, adj) ==
    /\ fetched' = Append(fetched, symbol)
    /\ attempt' = 0
    /\ reqs' = 0
    /\ slept' = 0
    /\ sleeps' = <<>>
    /\ payload' = Unbound
    /\ IF MissingInterval(p, intv)
       THEN /\ Finish(MissingIntervalError)
            /\ params' = params
       ELSE /\ pc' = "request"
            /\ result' = result
            /\ params' = BuildParams(symbol, p, intv, adj)

\* an empty table is returned instead
EmptySymbolsError_empty_table == Return("DataFrame", BuildTable(<<>>, <<>>))

\* line 182
EmptySymbolsError == Raise("ValueError", "Empty symbols input.", NoResponse)

\* AlphaVantageAPI.get_assets is called (lines 180-186, up to the first request).
\* is_str: the caller passed the single symbol as a str, not as a list.
get_assets(is_str, syms, p, intv, adj) ==
    /\ pc = "idle"
    /\ is_str => Len(syms) = 1
    /\ entry' = "get_assets"
    /\ symbols' = syms
    /\ period' = p
    /\ interval' = intv
    /\ adjusted' = adj
    /\ IF syms = <<>>
       THEN /\ Finish(EmptySymbolsError)
            /\ UNCHANGED <<i, fetched, params, attempt, reqs, slept, sleeps, payload>>
       ELSE /\ i' = 1
            /\ EnterHistoricalData(syms[1], p, intv, adj)
    /\ UNCHANGED <<contacted, last, dfs>>

\* AlphaVantageAPI.get_historical_data is called directly.
get_historical_data(symbol, p, intv, adj) ==
    /\ pc = "idle"
    /\ entry' = "get_historical_data"
    /\ symbols' = <<symbol>>
    /\ period' = p
    /\ interval' = intv
    /\ adjusted' = adj
    /\ i' = 1
    /\ EnterHistoricalData(symbol, p, intv, adj)
    /\ UNCHANGED <<contacted, last, dfs>>

\* av.get_assets of the legacy adapter (av.py lines 292-307).  The methods it
\* dispatches to (self.getCoinNames, self._getCoin, self._getStock) are not
\* defined on the class, so every non-empty call ends in an AttributeError
\* before a request is made.
av_get_assets(syms, what) ==
    /\ pc = "idle"
    /\ entry' = "av.get_assets"
    /\ symbols' = syms
    /\ Finish(CASE Len(syms) = 1 ->
                       Raise("AttributeError", "'av' object has no attribute 'getCoinNames'",
                             NoResponse)
                [] Len(syms) > 1 /\ syms[1] \in get_coin_names /\ what = "adjusted_close" ->
                       Raise("ValueError", "Cryptocurrencies do not have adjusted close prices.",
                             NoResponse)
                [] Len(syms) > 1 /\ syms[1] \in get_coin_names /\ what # "adjusted_close" ->
                       Raise("AttributeError", "'av' object has no attribute '_getCoin'",
                             NoResponse)
                [] Len(syms) > 1 /\ syms[1] \notin get_coin_names ->
                       Raise("AttributeError", "'av' object has no attribute '_getStock'",
                             NoResponse)
                [] OTHER -> Raise("ValueError", "Empty symbols input.", NoResponse))
    /\ UNCHANGED <<period, interval, adjusted, i, fetched, params, attempt, reqs, contacted,
                   slept, sleeps, last, dfs, payload>>

\* The request of one iteration of request_with_retry's loop ends in a
\* retried outcome (lines 42-48): the handler enters time.sleep.
RequestRetried(o) ==
    /\ pc = "request"
    /\ Retried(o)
    /\ contacted' = TRUE
    /\ reqs' = reqs + 1
    /\ last' = o
    /\ pc' = "sleep"
    /\ UNCHANGED <<entry, symbols, period, interval, adjusted, i, fetched, params, attempt,
                   slept, sleeps, dfs, payload, result>>

\* time.sleep(wait_time) returns (line 49): the loop goes to its next
\* iteration, or has none left and line 50 raises; the loop variable keeps
\* its last value when range(max_retries) is exhausted.
Sleep ==
    /\ pc = "sleep"
    /\ slept' = slept + wait_time(attempt)
    /\ sleeps' = Append(sleeps, wait_time(attempt))
    /\ IF HasNextAttempt(attempt)
       THEN /\ attempt' = attempt + 1
            /\ pc' = "request"
            /\ result' = result
       ELSE /\ attempt' = attempt
            /\ Finish(AllRetriesFailed)
    /\ UNCHANGED <<entry, symbols, period, interval, adjusted, i, fetched, params, reqs,
                   contacted, last, dfs, payload>>

\* session.request raises an exception the except clause does not name: it
\* leaves request_with_retry and every caller above it.
RequestRaised(o) ==
    /\ pc = "request"
    /\ o.kind \in OtherErrors
    /\ contacted' = TRUE
    /\ reqs' = reqs + 1
    /\ last' = o
    /\ Finish(Raise(o.kind, "", NoResponse))
    /\ UNCHANGED <<entry, symbols, period, interval, adjusted, i, fetched, params, attempt,
                   slept, sleeps, dfs, payload>>

\* The response has a status outside status_forcelist that raise_for_status
\* rejects: request_with_retry returns it (line 45), _make_request raises
\* (line 60).
RequestRejected(o) ==
    /\ pc = "request"
    /\ o.kind = "status"
    /\ ~Retried(o)
    /\ IsErrorStatus(o.code)
    /\ contacted' = TRUE
    /\ reqs' = reqs + 1
    /\ last' = o
    /\ Finish(Raise("HTTPError", ToString(o.code) \o " Error", o))
    /\ UNCHANGED <<entry, symbols, period, interval, adjusted, i, fetched, params, attempt,
                   slept, sleeps, dfs, payload>>

\* The response is accepted: response.json() (line 61), then
\* _parse_time_series_data (line 99), then the rest of the caller: the series
\* is returned, or appended and the next symbol entered (lines 185-187), or
\* the table is built (lines 189-192).  payload is what the frame of
\* get_historical_data that ended last held; a new frame starts without it.
RequestAccepted(o, body) ==
    /\ pc = "request"
    /\ o.kind = "status"
    /\ ~Retried(o)
    /\ ~IsErrorStatus(o.code)
    /\ contacted' = TRUE
    /\ last' = o
    /\ LET parsed == IF body.json
                     THEN _parse_time_series_data(body.data, period, IsCrypto(symbols[i]),
                                                  adjusted)
                     ELSE Raise("JSONDecodeError", "Expecting value", NoResponse)
           \* line 98 binds data when response.json() returned
           bound == IF body.json THEN Bound(body.data) ELSE Unbound
       IN IF parsed.status = "raised" \/ entry = "get_historical_data"
          THEN /\ Finish(parsed)
               /\ reqs' = reqs + 1
               /\ payload' = bound
               /\ UNCHANGED <<i, fetched, params, attempt, slept, sleeps, dfs>>
          ELSE /\ dfs' = Append(dfs, parsed.value)
               /\ IF i < Len(symbols)
                  THEN /\ i' = i + 1
                       /\ EnterHistoricalData(symbols[i + 1], period, interval, adjusted)
                  ELSE /\ Finish(Return("DataFrame",
                                        BuildTable(Append(dfs, parsed.value), symbols)))
                       /\ reqs' = reqs + 1
                       /\ payload' = bound
                       /\ UNCHANGED <<i, fetched, params, attempt, slept, sleeps>>
    /\ UNCHANGED <<entry, symbols, period, interval, adjusted>>

Outcomes ==
    {Status(c) : c \in StatusCodes} \cup {Exc(k) : k \in TransportErrors \cup OtherErrors}

(* The program on an unreliable network. *)
Next ==
    \/ \E is_str \in BOOLEAN, syms \in SymbolLists, p \in Period, intv \in IntervalArgs,
          adj \in BOOLEAN : get_assets(is_str, syms, p, intv, adj)
    \/ \E symbol \in SymbolNames, p \in Period, intv \in IntervalArgs, adj \in BOOLEAN :
          get_historical_data(symbol, p, intv, adj)
    \/ \E syms \in SymbolLists, what \in {"close", "adjusted_close"} : av_get_assets(syms, what)
    \/ \E o \in Outcomes : RequestRetried(o)
    \/ Sleep
    \/ \E o \in Outcomes : RequestRaised(o)
    \/ \E o \in Outcomes : RequestRejected(o)
    \/ \E body \in Bodies : RequestAccepted(Status(200), body)

Spec == Init /\ [][Next]_vars

(* get_assets on a network that answers every request with 200 and a       *)
(* payload of any mix of rows.                                             *)
NextReliable ==
    \/ \E syms \in SymbolLists, p \in {INTRADAY, "daily"}, adj \in BOOLEAN :
          get_assets(FALSE, syms, p, "5min", adj)
    \/ \E body \in MixedBodies : RequestAccepted(Status(200), body)

SpecReliable == Init /\ [][NextReliable]_vars

(* get_historical_data on a network that answers every request with 200    *)
(* and a block of rows in any order.                                       *)
NextSeries ==
    \/ \E symbol \in SymbolNames, p \in Period, adj \in BOOLEAN :
          get_historical_data(symbol, p, "5min", adj)
    \/ \E body \in AnyOrderBodies : RequestAccepted(Status(200), body)

SpecSeries == Init /\ [][NextSeries]_vars

----------------------------------------------------------------------------
(* Properties of the retry handler                                         *)

\* a step in which request_with_retry gets a response it does not retry
ResponseReturned ==
    /\ pc = "request"
    /\ last'.kind = "status"
    /\ last'.code \notin {429, 500, 502, 503, 504}
    /\ reqs' = reqs + 1 \/ reqs' = 0

\* backoff_factor * (2^0 + ... + 2^(k-1)), in ms
RECURSIVE BackoffSum(_)
BackoffSum(k) == IF k = 0 THEN 0 ELSE BackoffSum(k - 1) + backoff_factor * (2 ^ (k - 1))

\* C1: when the first k < max_retries attempts of request_with_retry end in a
\* retried outcome and attempt k+1 gets a response that is not retried, the
\* call returns that response (it does not raise the retry-exhausted error,
\* and sleeps no more) and has slept backoff_factor * 2^i for i in [0, k) in
\* total.
C1_SuccessAfterKRetries ==
    [][ResponseReturned =>
          /\ attempt < max_retries
          /\ reqs = attempt /\ Len(sleeps) = attempt
          /\ slept = BackoffSum(attempt)
          /\ \A k \in 1..Len(sleeps) : sleeps[k] = backoff_factor * (2 ^ (k - 1))
          /\ result' # AllRetriesFailed
          /\ pc' = "done" => (slept' = slept /\ sleeps' = sleeps)
          /\ IsErrorStatus(last'.code) => result'.response = last']_vars

\* C1 witness: a call that returned after two retried attempts and a 200
C1_Witness ==
    /\ pc = "done"
    /\ result.status = "returned"
    /\ reqs = 3
    /\ slept = 1500
    /\ last = Status(200)

\* C2: when every attempt of a request_with_retry call ends in a retried
\* outcome, the call ends in the retry-exhausted error after exactly
\* max_retries requests; and that error is raised in no other case.
C2_ExhaustedAfterMaxRetries ==
    /\ reqs <= max_retries
    /\ pc = "request" => (reqs = attempt /\ Len(sleeps) = attempt /\ reqs < max_retries)
    /\ pc = "sleep" => (reqs = attempt + 1 /\ Len(sleeps) = attempt /\ result = NoResult)
    /\ result = AllRetriesFailed => (pc = "done" /\ reqs = max_retries /\ Len(sleeps) = reqs)
    /\ (pc = "done" /\ reqs > 0 /\ Len(sleeps) = reqs)
          => (result = AllRetriesFailed /\ reqs = max_retries)

\* C2 witness: the retry-exhausted error after five retried requests
C2_Witness ==
    /\ pc = "done"
    /\ result = AllRetriesFailed
    /\ reqs = 5
    /\ Len(sleeps) = 5

\* a step in which a request is answered with an error status that is not
\* in the retryable set
NonRetryableResponse ==
    /\ pc = "request"
    /\ reqs' = reqs + 1
    /\ last'.kind = "status"
    /\ 400 <= last'.code /\ last'.code < 600
    /\ last'.code \notin {429, 500, 502, 503, 504}

\* C3: a 4xx/5xx status outside {429, 500, 502, 503, 504} is not retried: the
\* request that got it is the last one, no delay is slept for it, and the
\* caller of _make_request gets an HTTPError, not a payload.
C3_NonRetryableNotRetried ==
    [][NonRetryableResponse =>
          /\ pc' = "done"
          /\ slept' = slept /\ sleeps' = sleeps /\ attempt' = attempt
          /\ result'.status = "raised" /\ result'.type = "HTTPError"
          /\ result'.response = last'
          /\ dfs' = dfs /\ fetched' = fetched]_vars

\* C3 witness: a 404 on the second attempt ended the call
C3_Witness ==
    /\ pc = "done"
    /\ last = Status(404)
    /\ reqs = 2
    /\ slept = 500
    /\ result.status = "raised"

\* C4: when the last permitted attempt still fails, the error raised by
\* request_with_retry carries the last status or transport error observed
\* and the number of attempts made.
C4_FailureCarriesCauseAndCount ==
    (pc = "done" /\ reqs = max_retries /\ Len(sleeps) = max_retries)
        => /\ result.status = "raised"
           /\ result.response = last
           /\ result.message = "All " \o ToString(reqs) \o " retry attempts failed."

----------------------------------------------------------------------------
(* Properties of the argument checks                                       *)

\* C5: get_assets with an empty symbol list raises ValueError, and no request
\* has been issued (no fetch has even begun) when it does.
C5_EmptySymbolsRejected ==
    (entry \in {"get_assets", "av.get_assets"} /\ symbols = <<>>)
        => /\ pc = "done"
           /\ result.status = "raised"
           /\ result.type = "ValueError"
           /\ result.message = "Empty symbols input."
           /\ ~contacted /\ reqs = 0 /\ fetched = <<>>

\* C5 witness: AlphaVantageAPI.get_assets([]) has ended
C5_Witness ==
    /\ pc = "done"
    /\ entry = "get_assets"
    /\ symbols = <<>>
    /\ result.type = "ValueError"

\* C6: get_historical_data with period INTRADAY and no interval raises
\* ValueError, for crypto and equity symbols and both values of adjusted,
\* before any request is issued; nothing is retried.
C6_IntradayNeedsInterval ==
    (entry \in {"get_assets", "get_historical_data"} /\ symbols # <<>>
       /\ period = "intraday" /\ interval = None)
        => /\ pc = "done"
           /\ result.status = "raised"
           /\ result.type = "ValueError"
           /\ result.message = "Interval must be specified for intraday data"
           /\ ~contacted /\ reqs = 0 /\ attempt = 0 /\ sleeps = <<>>
           /\ fetched = <<symbols[1]>>

\* C6 witness: get_historical_data("BTC", INTRADAY, None, adjusted=True) has ended
C6_Witness ==
    /\ pc = "done"
    /\ entry = "get_historical_data"
    /\ symbols = <<"BTC">>
    /\ period = "intraday" /\ interval = None /\ adjusted
    /\ result.type = "ValueError"

----------------------------------------------------------------------------
(* Properties of get_assets                                                *)

\* C7: get_assets fetches the symbols one at a time in list order; when the
\* fetch of a symbol fails the call raises that failure, returns no table
\* (nor a partial one), and fetches no symbol after the failing one.
C7_FailFast ==
    entry = "get_assets" =>
        /\ Len(fetched) <= Len(symbols)
        /\ fetched = SubSeq(symbols, 1, Len(fetched))
        /\ Len(dfs) <= Len(fetched) /\ Len(fetched) <= Len(dfs) + 1
        /\ pc = "request" => (Len(fetched) = Len(dfs) + 1 /\ result = NoResult)
        /\ (pc = "done" /\ Len(dfs) < Len(symbols)) => result.status = "raised"
        /\ result.status = "raised" =>
              /\ pc = "done"
              /\ result.type # "DataFrame" /\ result.value = <<>>
              /\ symbols # <<>> => Len(fetched) = Len(dfs) + 1
        /\ result.status = "returned" =>
              /\ result.type = "DataFrame"
              /\ fetched = symbols /\ Len(dfs) = Len(symbols)

\* C7 witness: the fetch of the first of two symbols failed on the network
\* and the second was never fetched
C7_Witness ==
    /\ pc = "done"
    /\ entry = "get_assets"
    /\ Len(symbols) = 2
    /\ fetched = <<symbols[1]>>
    /\ contacted
    /\ result.status = "raised"

\* the timestamps of a table's rows
Rows(table) == {table.index[r] : r \in 1..Len(table.index)}
\* the series has a price that is not NaN at t
HasPrice(series, t) == \E j \in 1..Len(series) : series[j].ts = t /\ ~series[j].val.nan
PriceAt(series, t) == series[CHOOSE j \in 1..Len(series) : series[j].ts = t].val
Days == 1..9

\* C8 as stated: the table has a row for a timestamp iff the timestamp is in
\* the series of every symbol; every row has a value in every column; the
\* columns are the symbols in the order given.
C8_InnerJoinOnTimestamps ==
    (pc = "done" /\ result.status = "returned" /\ result.type = "DataFrame") =>
        /\ result.value.columns = symbols
        /\ Rows(result.value) = {t \in Days : \A c \in 1..Len(dfs) : t \in IndexOf(dfs[c])}
        /\ \A r \in 1..Len(result.value.index) : \A c \in 1..Len(symbols) :
              ~result.value.data[r][c].nan

\* C8 amended: the table has a row for a timestamp iff every symbol's series
\* has a price that is not NaN at that timestamp; the row holds those prices,
\* one per symbol, so every row has a value in every column; the columns are
\* the symbols in the order given.
C8_InnerJoinOnDefinedPrices ==
    (pc = "done" /\ result.status = "returned" /\ result.type = "DataFrame") =>
        /\ result.value.columns = symbols
        /\ Len(dfs) = Len(symbols)
        /\ Rows(result.value) = {t \in Days : \A c \in 1..Len(dfs) : HasPrice(dfs[c], t)}
        /\ Len(result.value.index) = Cardinality(Rows(result.value))
        /\ Len(result.value.data) = Len(result.value.index)
        /\ \A r \in 1..Len(result.value.index) :
              /\ Len(result.value.data[r]) = Len(symbols)
              /\ \A c \in 1..Len(symbols) :
                    /\ ~result.value.data[r][c].nan
                    /\ result.value.data[r][c] = PriceAt(dfs[c], result.value.index[r])

\* C8 witness: a table of two symbols with a row, where the first series has
\* a timestamp the second lacks
C8_Witness ==
    /\ pc = "done"
    /\ result.type = "DataFrame"
    /\ Len(symbols) = 2
    /\ Len(result.value.index) >= 1
    /\ IndexOf(dfs[1]) \ IndexOf(dfs[2]) # {}

----------------------------------------------------------------------------
(* Properties of the request builder                                       *)

\* the decision table of function identifiers
FunctionId(crypto, p, adj) ==
    CASE crypto /\ p = "intraday" -> "CRYPTO_INTRADAY"
      [] crypto /\ p = "daily" -> "DIGITAL_CURRENCY_DAILY"
      [] crypto /\ p = "weekly" -> "DIGITAL_CURRENCY_WEEKLY"
      [] crypto /\ p = "monthly" -> "DIGITAL_CURRENCY_MONTHLY"
      [] ~crypto /\ p = "intraday" -> "TIME_SERIES_INTRADAY"
      [] ~crypto /\ p = "daily" /\ adj -> "TIME_SERIES_DAILY_ADJUSTED"
      [] ~crypto /\ p = "weekly" /\ adj -> "TIME_SERIES_WEEKLY_ADJUSTED"
      [] ~crypto /\ p = "monthly" /\ adj -> "TIME_SERIES_MONTHLY_ADJUSTED"
      [] ~crypto /\ p = "daily" /\ ~adj -> "TIME_SERIES_DAILY"
      [] ~crypto /\ p = "weekly" /\ ~adj -> "TIME_SERIES_WEEKLY"
      [] ~crypto /\ p = "monthly" /\ ~adj -> "TIME_SERIES_MONTHLY"

\* C9: the function identifier of every request is the one the decision
\* table gives for the asset class, the period and the adjusted flag; the
\* flag does not change it for crypto or intraday queries.
C9_FunctionIdMatchesTable ==
    params # NoParams =>
        /\ params.symbol = fetched[Len(fetched)]
        /\ params.function = FunctionId(params.symbol \in COIN_NAMES, period, adjusted)
        /\ \A c \in BOOLEAN, p \in Period, a \in BOOLEAN :
              /\ _get_function_name(c, p, a) = FunctionId(c, p, a)
              /\ (c \/ p = "intraday") =>
                    _get_function_name(c, p, TRUE) = _get_function_name(c, p, FALSE)

\* C9 witness: a request for an adjusted monthly equity series
C9_Witness ==
    /\ pc = "request"
    /\ params.function = "TIME_SERIES_MONTHLY_ADJUSTED"
    /\ params.symbol = "IBM" /\ period = "monthly" /\ adjusted

\* C10: the parameter set of every request has outputsize=full, has
\* market=USD exactly for the symbols of COIN_NAMES, has an interval exactly
\* when the period is INTRADAY, and has an adjusted flag exactly for equity
\* symbols with a period other than INTRADAY.
C10_ParameterSet ==
    params # NoParams =>
        LET symbol == fetched[Len(fetched)]
            crypto == symbol \in {"BTC", "ETH", "DOGE", "AVAX", "SHIB", "LINK", "BCH",
                                  "LTC", "ETC", "AAVE"}
        IN /\ params.symbol = symbol
           /\ params.outputsize = "full"
           /\ params.market = "USD" <=> crypto
           /\ ~crypto => params.market = None
           /\ "interval" \in DOMAIN params <=> period = "intraday"
           /\ period = "intraday" => params.interval = interval /\ interval \in Interval
           /\ "adjusted" \in DOMAIN params <=> (~crypto /\ period # "intraday")
           /\ "adjusted" \in DOMAIN params =>
                 params.adjusted = (IF adjusted THEN "true" ELSE "false")

\* C10 witness: a request for an unadjusted weekly equity series
C10_Witness ==
    /\ pc = "request"
    /\ params.symbol = "IBM" /\ period = "weekly"
    /\ "adjusted" \in DOMAIN params /\ params.adjusted = "false"
    /\ params.market = None /\ "interval" \notin DOMAIN params

----------------------------------------------------------------------------
(* Properties of the response normalizer                                   *)

\* the payload has a top-level key with the words "Time Series"
HasTimeSeriesKey(d) == \E j \in 1..Len(d) : Contains(d[j].key, <<"Time", "Series">>)

\* the rows under the first such key
Block(d) ==
    d[CHOOSE j \in 1..Len(d) :
         /\ Contains(d[j].key, <<"Time", "Series">>)
         /\ \A k \in 1..(j - 1) : ~Contains(d[k].key, <<"Time", "Series">>)].value

\* a series was returned for the payload held in the state
SeriesReturned ==
    /\ pc = "done"
    /\ payload.bound
    /\ result.status = "returned"
    /\ result.type = "Series"

\* the decision table of price fields
PriceField(crypto, p, adj) ==
    CASE crypto -> "4. close"
      [] ~crypto /\ adj /\ p \in {"daily", "weekly", "monthly"} -> "5. adjusted close"
      [] ~crypto /\ (~adj \/ p = "intraday") -> "4. close"

\* C11: the price field of every (asset class, period, adjusted) combination
\* is the close field for crypto, and for equities the adjusted-close field
\* exactly when adjusted is true and the period is not INTRADAY; a returned
\* series takes its values from that field of the rows, and a block in which
\* no row has that field is refused with that field's name.
C11_PriceFieldSelection ==
    /\ \A c \in BOOLEAN, p \in Period, a \in BOOLEAN :
          /\ PriceColumn(p, c, a) = PriceField(c, p, a)
          /\ PriceColumn(p, c, a) = "5. adjusted close" <=> (~c /\ a /\ p # "intraday")
    /\ (pc = "done" /\ payload.bound /\ HasTimeSeriesKey(payload.value)) =>
          LET rows == Block(payload.value)
              field == PriceField(symbols[Len(fetched)] \in COIN_NAMES, period, adjusted)
          IN /\ result.status = "returned" =>
                   \A j \in 1..Len(rows) :
                      field \in DOMAIN rows[j].fields =>
                         \E k \in 1..Len(result.value) :
                            /\ result.value[k].ts = to_datetime(rows[j].ts)
                            /\ result.value[k].val = FloatOf[rows[j].fields[field]]
             /\ (rows # <<>> /\ \A j \in 1..Len(rows) : field \notin DOMAIN rows[j].fields) =>
                   result = Raise("KeyError", field, NoResponse)

\* C11 witness: an adjusted weekly equity series was returned with the
\* adjusted close of day 1, which differs from that day's close
C11_Witness ==
    /\ SeriesReturned
    /\ symbols = <<"IBM">> /\ period = "weekly" /\ adjusted
    /\ \E j \in 1..Len(Block(payload.value)) :
          /\ Block(payload.value)[j].ts = DateStr(1)
          /\ Block(payload.value)[j].fields["4. close"] = "11"
          /\ Block(payload.value)[j].fields["5. adjusted close"] = "21"
    /\ \E k \in 1..Len(result.value) : result.value[k] = [ts |-> 1, val |-> Float(21)]

\* C12: when the payload of an accepted response has no top-level key with
\* the words "Time Series", the call fails at once with the error of the key
\* lookup: the accepted request is the last one issued (no retry, no sleep
\* after it, no request for a later symbol) and no series is returned or
\* collected.
C12_NoTimeSeriesKeyFailsAtOnce ==
    (payload.bound /\ ~HasTimeSeriesKey(payload.value)) =>
        /\ pc = "done"
        /\ result = Raise("IndexError", "list index out of range", NoResponse)
        /\ last = Status(200)
        /\ reqs = Len(sleeps) + 1
        /\ i = Len(fetched)
        /\ Len(dfs) = i - 1

\* C12 witness: get_assets for two symbols got, after one retried attempt, an
\* error object for the first symbol and ended without asking for the second
C12_Witness ==
    /\ pc = "done"
    /\ entry = "get_assets" /\ Len(symbols) = 2
    /\ payload = Bound(ErrorPayload)
    /\ result.status = "raised" /\ result.type = "IndexError"
    /\ reqs = 2 /\ fetched = <<symbols[1]>> /\ dfs = <<>>

\* C13: a series returned for a block of n rows in any order has exactly n
\* points, one for every row with the row's timestamp and the row's own
\* price in the selected field, in strictly ascending order of timestamp;
\* normalizing the payload again gives the same series.
C13_OnePointPerRowAscending ==
    SeriesReturned =>
        LET rows == Block(payload.value)
            field == PriceField(symbols[1] \in COIN_NAMES, period, adjusted)
            series == result.value
        IN /\ Len(series) = Len(rows)
           /\ \A j \in 1..Len(rows) :
                 /\ field \in DOMAIN rows[j].fields
                 /\ \E k \in 1..Len(series) :
                       /\ series[k].ts = to_datetime(rows[j].ts)
                       /\ series[k].val = FloatOf[rows[j].fields[field]]
           /\ \A k \in 1..(Len(series) - 1) : series[k].ts < series[k + 1].ts
           /\ _parse_time_series_data(payload.value, period, symbols[1] \in COIN_NAMES,
                                      adjusted) = result

----------------------------------------------------------------------------
(* The wait after the last attempt                                         *)

\* C14: request_with_retry has slept backoff_factor * 2^attempt after every
\* retried attempt, the last one included: the retry-exhausted error is
\* raised after as many waits as requests, max_retries of each, the waits
\* adding up to backoff_factor * (2^0 + ... + 2^(max_retries - 1)), and the
\* last wait, backoff_factor * 2^(max_retries - 1), is followed by no request.
\* While the handler waits, the request before the wait has been answered
\* with a retried outcome and the call has not ended.
C14_SleepsAfterFinalAttempt ==
    /\ \A k \in 1..Len(sleeps) : sleeps[k] = backoff_factor * (2 ^ (k - 1))
    /\ slept = BackoffSum(Len(sleeps))
    /\ Len(sleeps) \in {reqs - 1, reqs}
    /\ pc = "request" => Len(sleeps) = reqs
    /\ pc = "sleep" =>
          /\ Retried(last)
          /\ Len(sleeps) = reqs - 1
          /\ reqs = attempt + 1
          /\ result = NoResult
    /\ (pc = "done" /\ result = AllRetriesFailed) =>
          /\ Len(sleeps) = max_retries
          /\ reqs = max_retries
          /\ attempt = max_retries - 1
          /\ sleeps[max_retries] = backoff_factor * (2 ^ (max_retries - 1))
          /\ slept = BackoffSum(max_retries)
          /\ slept = 15500

\* C14 witness: the call ended in the retry-exhausted error after a fifth
\* request that timed out and a wait of 8 s after it
C14_Witness ==
    /\ pc = "done"
    /\ result = AllRetriesFailed
    /\ last = Exc("Timeout")
    /\ reqs = 5
    /\ sleeps = <<500, 1000, 2000, 4000, 8000>>

====
